---- MODULE Spec2Model ----
(***************************************************************************)
(* Model of the key-value telemetry anonymizer (src/lib):                  *)
(*   - utils_secrets.py   : gen_secret_hex, the key provider               *)
(*   - anonymize_kv_mvp.py: token_hmac, the format-preserving shim,        *)
(*                          fpe_string, the email variants, anonymize_df   *)
(* Text is a sequence of one-character strings; bytes are a sequence of    *)
(* numbers 0..255; a missing cell (None / NA) is the value NA.             *)
(***************************************************************************)
EXTENDS Integers, Sequences, FiniteSets, TLC

VARIABLES
    \* ---- key provider (utils_secrets.py) ----
    env,          \* process environment and importability of boto3
    dirExists,    \* data_dir exists
    secretFile,   \* content of data_dir/secret_key.bin, or ABSENT
    kmsFile,      \* content of data_dir/kms_data_key.bin, or ABSENT
    initSecret,   \* content of secret_key.bin before the first call (history)
    log,          \* one record per finished gen_secret_hex call (history)
    \* ---- pure transformations (anonymize_kv_mvp.py) ----
    pyffx,        \* the optional cipher: "absent", "ok" or "raises" (_HAS_PYFFX)
    fin,          \* the inputs of the transformation under study
    fout,         \* what the transformations returned on fin
    \* ---- orchestrator (anonymize_kv_mvp.py, anonymize_df) ----
    din,          \* the arguments of anonymize_df
    dout          \* outcome of the call

vars == <<env, dirExists, secretFile, kmsFile, initSecret, log, pyffx, fin, fout, din, dout>>

keyVars == <<env, dirExists, secretFile, kmsFile, initSecret, log>>
fpeVars == <<pyffx, fin, fout>>
dfVars  == <<din, dout>>

-----------------------------------------------------------------------------
(* Bounds of the model *)

\* number of gen_secret_hex calls followed
MaxCalls == 3
\* number of distinct outcomes of os.urandom / of the KMS key generator
NumSeeds == 2
\* longest value handed to fpe_shim_string / fpe_string
MaxLen == 3
\* longest value handed to the email variant
MaxEmailLen == 6
\* most records of a record set handed to anonymize_df
MaxRows == 2

-----------------------------------------------------------------------------
(* Shared vocabulary *)

\* a path with no file, and a file holding the bytes b
ABSENT  == [exists |-> FALSE, data |-> <<>>]
File(b) == [exists |-> TRUE, data |-> b]
NOTRUN  == "notrun"

Range(s) == {s[i] : i \in DOMAIN s}

\* length of the key: len(key) != 32, os.urandom(32)
KeyLen == 32

HEXDIGITS == <<"0","1","2","3","4","5","6","7","8","9","a","b","c","d","e","f">>

\* bytes.hex(): two lowercase hex digits per byte, high nibble first
BytesHex(b) ==
    [i \in 1..(2 * Len(b)) |->
        LET byte == b[(i + 1) \div 2]
        IN  HEXDIGITS[(IF i % 2 = 1 THEN byte \div 16 ELSE byte % 16) + 1]]

-----------------------------------------------------------------------------
(* Key provider: utils_secrets.py *)

\* os.urandom(n): one of NumSeeds byte strings of length n
Urandom(seed, n) == [i \in 1..n |-> (seed * 101 + i * 37) % 256]

\* a file of the wrong size found on disk: shorter and longer than 32 bytes
ShortKey == Urandom(1, 16)
LongKey  == Urandom(2, 33)

\* the data key the KMS generates: one of NumSeeds byte strings of length n
KmsDataKey(seed, n) == [i \in 1..n |-> (seed * 59 + i * 91 + 17) % 256]

\* KMS generate_data_key: the service wraps the plaintext under the master
\* key; the blob is opaque to the caller (a header and the wrapped bytes)
KmsWrap(p)   == <<1, 2, Len(p)>> \o [i \in 1..Len(p) |-> (p[i] + 113) % 256]
\* KMS decrypt: the service unwraps a blob it produced
KmsUnwrap(c) == [i \in 1..(Len(c) - 3) |-> (c[i + 3] + 143) % 256]

\* mutant: the file is never read back, every call finds no key
_load_local_key_never(file) == [kind |-> "none", key |-> <<>>]

\* mutant: a file of the wrong size is treated like a missing one
_load_local_key_lenient(file) ==
    IF ~file.exists \/ Len(file.data) # KeyLen THEN [kind |-> "none", key |-> <<>>]
    ELSE [kind |-> "key", key |-> file.data]

\* _load_local_key: None when the file is absent, ValueError when it is not
\* 32 bytes long, else its content
_load_local_key(file) ==
    IF ~file.exists THEN [kind |-> "none", key |-> <<>>]
    ELSE IF Len(file.data) # KeyLen THEN [kind |-> "error", key |-> <<>>]
    ELSE [kind |-> "key", key |-> file.data]

\* _save_local_key: the content of the file after open(path,"wb").write(key)
_save_local_key(file, key) == File(key)

\* mutant: the plaintext key is cached instead of the wrapped blob
KmsCachedPlaintext(plaintext_key, ciphertext_blob) == File(plaintext_key)

\* what gen_secret_hex writes to kms_data_key.bin: f.write(ciphertext_blob)
KmsCachedContent(plaintext_key, ciphertext_blob) == File(ciphertext_blob)

CallRec(mode, outcome, value, writes, remote) ==
    [mode |-> mode, outcome |-> outcome, value |-> value,
     writes |-> writes, remote |-> remote]

\* gen_secret_hex(mode="dev"), the whole call
GenSecretDev ==
    /\ Len(log) < MaxCalls
    /\ dirExists' = TRUE
    /\ LET r == _load_local_key(secretFile) IN
         CASE r.kind = "error" ->
                /\ log' = Append(log, CallRec("dev", "ValueError", <<>>, <<>>, <<>>))
                /\ UNCHANGED secretFile
           [] r.kind = "key" ->
                /\ log' = Append(log, CallRec("dev", "ok", BytesHex(r.key), <<>>, <<>>))
                /\ UNCHANGED secretFile
           [] r.kind = "none" ->
                \E seed \in 1..NumSeeds :
                    LET key == Urandom(seed, KeyLen) IN
                    /\ secretFile' = _save_local_key(secretFile, key)
                    /\ log' = Append(log, CallRec("dev", "ok", BytesHex(key),
                                 <<[file |-> "secret_key.bin", content |-> File(key)]>>, <<>>))
    /\ UNCHANGED <<env, kmsFile, initSecret, fpeVars, dfVars>>

\* what the remote capability answers to one request
KmsAnswers == {"ok", "raises", "badlen"}

\* region = AWS_REGION or AWS_DEFAULT_REGION
Region == IF env.AWS_REGION # "" THEN env.AWS_REGION ELSE env.AWS_DEFAULT_REGION

\* gen_secret_hex(mode="aws"), the whole call
GenSecretAws ==
    /\ Len(log) < MaxCalls
    /\ dirExists' = TRUE
    /\ UNCHANGED <<env, secretFile, initSecret, fpeVars, dfVars>>
    /\ IF ~env.boto3 \/ Region = "" \/ env.AWS_KMS_KEY_ID = ""
       THEN /\ log' = Append(log, CallRec("aws", "RuntimeError", <<>>, <<>>, <<>>))
            /\ UNCHANGED kmsFile
       ELSE \E ans \in KmsAnswers, seed \in 1..NumSeeds :
            IF kmsFile.exists
            THEN \* cached blob: kms.decrypt
                 LET plain == IF ans = "badlen" THEN SubSeq(KmsUnwrap(kmsFile.data), 1, 16)
                              ELSE KmsUnwrap(kmsFile.data)
                     rem   == <<[op |-> "decrypt", answer |-> ans, plaintext |-> plain,
                                 blob |-> kmsFile.data]>>
                 IN  /\ UNCHANGED kmsFile
                     /\ log' = Append(log,
                          IF ans = "raises"
                          THEN CallRec("aws", "KmsError", <<>>, <<>>,
                                       <<[op |-> "decrypt", answer |-> ans,
                                          plaintext |-> <<>>, blob |-> kmsFile.data]>>)
                          ELSE IF Len(plain) # KeyLen
                          THEN CallRec("aws", "RuntimeError", <<>>, <<>>, rem)
                          ELSE CallRec("aws", "ok", BytesHex(plain), <<>>, rem))
            ELSE \* no blob yet: kms.generate_data_key
                 LET plain == KmsDataKey(seed, IF ans = "badlen" THEN 16 ELSE KeyLen)
                     blob  == KmsWrap(plain)
                     rem   == <<[op |-> "generate_data_key", answer |-> ans,
                                 plaintext |-> plain, blob |-> blob]>>
                 IN  IF ans = "raises"
                     THEN /\ UNCHANGED kmsFile
                          /\ log' = Append(log, CallRec("aws", "KmsError", <<>>, <<>>,
                                       <<[op |-> "generate_data_key", answer |-> ans,
                                          plaintext |-> <<>>, blob |-> <<>>]>>))
                     ELSE IF Len(plain) # KeyLen
                     THEN /\ UNCHANGED kmsFile
                          /\ log' = Append(log, CallRec("aws", "RuntimeError", <<>>, <<>>, rem))
                     ELSE /\ kmsFile' = KmsCachedContent(plain, blob)
                          /\ log' = Append(log, CallRec("aws", "ok", BytesHex(plain),
                                       <<[file |-> "kms_data_key.bin",
                                          content |-> KmsCachedContent(plain, blob)]>>, rem))

\* gen_secret_hex with any other mode: the directory is made, then ValueError
GenSecretBadMode ==
    /\ Len(log) < MaxCalls
    /\ dirExists' = TRUE
    /\ log' = Append(log, CallRec("other", "ValueError", <<>>, <<>>, <<>>))
    /\ UNCHANGED <<env, secretFile, kmsFile, initSecret, fpeVars, dfVars>>

InitKey ==
    /\ env \in [boto3 : BOOLEAN, AWS_REGION : {"", "us-east-1"},
                AWS_DEFAULT_REGION : {"", "us-west-2"}, AWS_KMS_KEY_ID : {"", "alias/k"}]
    /\ secretFile \in {ABSENT, File(ShortKey), File(LongKey)}
                      \cup {File(Urandom(s, KeyLen)) : s \in 1..NumSeeds}
    /\ kmsFile \in {ABSENT} \cup {File(KmsWrap(KmsDataKey(s, KeyLen))) : s \in 1..NumSeeds}
    /\ dirExists \in IF secretFile = ABSENT /\ kmsFile = ABSENT THEN BOOLEAN ELSE {TRUE}
    /\ initSecret = secretFile
    /\ log = <<>>
    /\ pyffx = "absent" /\ fin = NOTRUN /\ fout = NOTRUN /\ din = NOTRUN /\ dout = NOTRUN

NextKey == GenSecretDev \/ GenSecretAws \/ GenSecretBadMode

SpecKey == InitKey /\ [][NextKey]_vars

-----------------------------------------------------------------------------
(* Text and bytes: anonymize_kv_mvp.py *)

\* a cell value: missing (None / NA) or a string
NA     == [na |-> TRUE, s |-> <<>>]
Str(s) == [na |-> FALSE, s |-> s]

DIGITS == <<"0","1","2","3","4","5","6","7","8","9">>
LOWER  == <<"a","b","c","d","e","f","g","h","i","j","k","l","m",
            "n","o","p","q","r","s","t","u","v","w","x","y","z">>
UPPER  == <<"A","B","C","D","E","F","G","H","I","J","K","L","M",
            "N","O","P","Q","R","S","T","U","V","W","X","Y","Z">>

\* two characters outside ASCII, each one character of the text:
\* U+00E9 (a lowercase letter) and U+00B2 (superscript two, a digit)
EACUTE == "U+00E9"
SUP2   == "U+00B2"
NonAscii == {EACUTE, SUP2}

IndexOf(seq, x) == CHOOSE i \in DOMAIN seq : seq[i] = x

\* the characters str.isdigit, str.islower and str.isupper accept
DigitChars == Range(DIGITS) \cup {SUP2}
LowerChars == Range(LOWER) \cup {EACUTE}
UpperChars == Range(UPPER)

\* str.isdigit, str.islower, str.isupper, str.isspace, str.isalnum of one character
isdigit(ch) == ch \in DigitChars
islower(ch) == ch \in LowerChars
isupper(ch) == ch \in UpperChars
isspace(ch) == ch = " "
isalnum(ch) == isdigit(ch) \/ islower(ch) \/ isupper(ch)

\* str.lower of one character
LowerCh(ch) == IF ch \in UpperChars THEN LOWER[IndexOf(UPPER, ch)] ELSE ch
LowerStr(s) == [i \in DOMAIN s |-> LowerCh(s[i])]

\* sub in s, for strings
Contains(s, sub) ==
    \E i \in 0..(Len(s) - Len(sub)) : SubSeq(s, i + 1, i + Len(sub)) = sub

\* code points of the ASCII characters of the model
AsciiTable ==
    [ch \in Range(DIGITS) \cup Range(LOWER) \cup Range(UPPER) \cup {" ", "-", ".", "@", "_"} |->
        IF ch \in Range(DIGITS) THEN 47 + IndexOf(DIGITS, ch)
        ELSE IF ch \in Range(LOWER) THEN 96 + IndexOf(LOWER, ch)
        ELSE IF ch \in Range(UPPER) THEN 64 + IndexOf(UPPER, ch)
        ELSE CASE ch = " " -> 32 [] ch = "-" -> 45 [] ch = "." -> 46
               [] ch = "@" -> 64 [] ch = "_" -> 95]

\* ord(ch) of an ASCII character
AsciiCode(ch) == AsciiTable[ch]

\* ch.encode("utf-8")
Utf8Ch(ch) ==
    IF ch = EACUTE THEN <<195, 169>>
    ELSE IF ch = SUP2 THEN <<194, 178>>
    ELSE <<AsciiCode(ch)>>

\* ch.encode("ascii", "ignore"): a character outside ASCII is dropped
AsciiIgnore(ch) == IF ch \in NonAscii THEN <<>> ELSE <<AsciiCode(ch)>>

RECURSIVE Utf8(_)
\* str.encode("utf-8", errors="ignore")
Utf8(s) == IF s = <<>> THEN <<>> ELSE Utf8Ch(Head(s)) \o Utf8(Tail(s))

\* _to_bytes: empty bytes for a missing value, else the UTF-8 of its string
_to_bytes(x) == IF x.na THEN <<>> ELSE Utf8(x.s)

RECURSIVE AbsorbFrom(_, _, _)
AbsorbFrom(h, bytes, i) ==
    IF i > Len(bytes) THEN h
    ELSE AbsorbFrom((h * 131 + bytes[i] + 1) % 65521, bytes, i + 1)

\* the state h after every byte has been absorbed, first to last
Absorb(h, bytes) == AbsorbFrom(h, bytes, 1)

\* the secrets a run can hold: what gen_secret_hex(mode="dev") generates
Keys == {Urandom(s, KeyLen) : s \in 1..NumSeeds}

\* the state of the keyed hash after the key block, one entry per secret
KeySchedule == [k \in Keys |-> Absorb(7, k)]

DigestByte(h, i) == ((h + 13 * i) * ((h % 251) + 2 * i + 1) + (h \div 256)) % 256

\* hmac.new(key, msg, sha256).digest(): 32 bytes, a keyed function of every
\* byte of the message; the compression function is a small stand-in
_hmac_digest(key, msg) ==
    LET h == Absorb(KeySchedule[key], msg)
    IN  [i \in 1..32 |-> DigestByte(h, i)]

-----------------------------------------------------------------------------
(* Format-preserving shim *)

\* mutant: every classified character is drawn from the digit alphabet
_shim_map_char_digits(ch, key, pos, salt) ==
    IF ~isalnum(ch) THEN ch
    ELSE LET cls == IF isdigit(ch) THEN 100 ELSE IF islower(ch) THEN 108 ELSE 117
             msg == <<cls, pos % 256>> \o AsciiIgnore(ch) \o salt
         IN  DIGITS[(_hmac_digest(key, msg)[1] % Len(DIGITS)) + 1]

\* _shim_map_char: pos is the 0-based position; the class tags are b"d", b"l", b"u"
_shim_map_char(ch, key, pos, salt) ==
    IF ~isalnum(ch) THEN ch
    ELSE LET alphabet == IF isdigit(ch) THEN DIGITS
                         ELSE IF islower(ch) THEN LOWER ELSE UPPER
             cls == IF alphabet = DIGITS THEN 100
                    ELSE IF alphabet = LOWER THEN 108 ELSE 117
             msg == <<cls, pos % 256>> \o AsciiIgnore(ch) \o salt
             digest == _hmac_digest(key, msg)
             idx == digest[1] % Len(alphabet)
         IN  alphabet[idx + 1]

\* fpe_shim_string: a missing value is returned as is
fpe_shim_string(value, key, salt) ==
    IF value.na THEN value
    ELSE Str([i \in DOMAIN value.s |-> _shim_map_char(value.s[i], key, i - 1, salt)])

-----------------------------------------------------------------------------
(* The optional cipher (pyffx) and fpe_string *)

\* code point of a character: the order of sorted()
CodePoint(ch) == IF ch = EACUTE THEN 233 ELSE IF ch = SUP2 THEN 178 ELSE AsciiCode(ch)

RECURSIVE SortChars(_)
\* sorted(set(...)) of characters
SortChars(S) ==
    IF S = {} THEN <<>>
    ELSE LET m == CHOOSE x \in S : \A y \in S : CodePoint(x) <= CodePoint(y)
         IN  <<m>> \o SortChars(S \ {m})

\* int(s) succeeds on the decimal digits; int("²") raises ValueError
AsciiDigits == Range(DIGITS)
IntParses(s) == s # <<>> /\ \A i \in DOMAIN s : s[i] \in AsciiDigits

RECURSIVE IntOf(_)
\* int(s)
IntOf(s) ==
    IF s = <<>> THEN 0
    ELSE IntOf(SubSeq(s, 1, Len(s) - 1)) * 10 + (IndexOf(DIGITS, s[Len(s)]) - 1)

RECURSIVE IntStr(_)
\* str(n) of a natural number
IntStr(n) == IF n < 10 THEN <<DIGITS[n + 1]>> ELSE IntStr(n \div 10) \o <<DIGITS[(n % 10) + 1]>>

\* str.zfill(width)
Zfill(s, width) == [i \in 1..(width - Len(s)) |-> "0"] \o s

\* pyffx.String(key, alphabet, length=len(s)).encrypt(s) on a string over the
\* alphabet: a keyed permutation of the strings of that length over the
\* alphabet (library code; a position-wise keyed rotation stands for FFX)
PyffxString(key, alphabet, s) ==
    LET d == _hmac_digest(key, <<Len(s), Len(alphabet)>>)
    IN  [i \in DOMAIN s |->
            alphabet[((IndexOf(alphabet, s[i]) - 1 + d[((i - 1) % 32) + 1]) % Len(alphabet)) + 1]]

\* pyffx.Integer(key, length).encrypt(n): the digits of n, zero-filled to
\* length, encrypted over the digit alphabet and read back as a number
PyffxInteger(key, length, n) ==
    IntOf(PyffxString(key, DIGITS, Zfill(IntStr(n), length)))

\* the composition tests of fpe_string (each needs len(s) > 0)
only_digits(s) == Len(s) > 0 /\ \A i \in DOMAIN s : isdigit(s[i])
only_lower(s)  == Len(s) > 0 /\ \A i \in DOMAIN s : islower(s[i])
only_upper(s)  == Len(s) > 0 /\ \A i \in DOMAIN s : isupper(s[i])
alnum(s)       == Len(s) > 0 /\ \A i \in DOMAIN s : isalnum(s[i])
\* the distinct non-whitespace characters observed in s
Observed(s)    == {s[i] : i \in {j \in DOMAIN s : ~isspace(s[j])}}

FpeResult(res, path) == [res |-> res, path |-> path, raised |-> FALSE]

\* mutant: the fallback drops the tweak (shim called with the default salt)
fpe_string_nosalt(value, key, tweak) ==
    IF value.na THEN FpeResult(value, "na")
    ELSE FpeResult(fpe_shim_string(value, key, <<>>), "shim")

\* fpe_string: the result, the path that produced it ("na", "cipher" or
\* "shim"), and whether an exception left the function
fpe_string(value, key, tweak) ==
    IF value.na THEN FpeResult(value, "na")
    ELSE
    LET s    == value.s
        shim == FpeResult(fpe_shim_string(Str(s), key, tweak), "shim")
    IN  IF pyffx = "absent" THEN shim
        ELSE IF only_digits(s)
        THEN \* pyffx.Integer(key, length=len(s)); encrypt(int(s)); zfill
             IF pyffx = "raises" \/ ~IntParses(s) THEN shim
             ELSE FpeResult(Str(Zfill(IntStr(PyffxInteger(key, Len(s), IntOf(s))), Len(s))),
                            "cipher")
        ELSE IF ~only_lower(s) /\ ~only_upper(s) /\ ~alnum(s) /\ Cardinality(Observed(s)) < 2
        THEN shim
        ELSE LET alphabet == IF only_lower(s) THEN LOWER
                             ELSE IF only_upper(s) THEN UPPER
                             ELSE IF alnum(s) THEN LOWER \o UPPER \o DIGITS
                             ELSE SortChars(Observed(s))
             IN  \* pyffx.String(key, alphabet, length=len(s)).encrypt(s) raises
                 \* ValueError on a character outside the alphabet
                 IF pyffx = "raises" \/ \E i \in DOMAIN s : s[i] \notin Range(alphabet)
                 THEN shim
                 ELSE FpeResult(Str(PyffxString(key, alphabet, s)), "cipher")

-----------------------------------------------------------------------------
(* Email variant of the format-preserving transformation *)

\* EMAIL_RE = ^([^@]+)@([^@]+\.[^@]+)$ : exactly one "@", a non-empty local
\* part, and a domain with a "." that is neither its first nor its last character
EmailMatch(s) ==
    LET ats == {i \in DOMAIN s : s[i] = "@"}
    IN  IF Cardinality(ats) # 1 THEN [ok |-> FALSE, local |-> <<>>, domain |-> <<>>]
        ELSE LET p      == CHOOSE i \in ats : TRUE
                 local  == SubSeq(s, 1, p - 1)
                 domain == SubSeq(s, p + 1, Len(s))
             IN  IF Len(local) >= 1 /\ \E j \in 2..(Len(domain) - 1) : domain[j] = "."
                 THEN [ok |-> TRUE, local |-> local, domain |-> domain]
                 ELSE [ok |-> FALSE, local |-> <<>>, domain |-> <<>>]

RECURSIVE SplitDots(_)
\* domain.split(".")
SplitDots(s) ==
    IF \A i \in DOMAIN s : s[i] # "." THEN <<s>>
    ELSE LET p == CHOOSE i \in DOMAIN s : s[i] = "." /\ \A j \in 1..(i - 1) : s[j] # "."
         IN  <<SubSeq(s, 1, p - 1)>> \o SplitDots(SubSeq(s, p + 1, Len(s)))

RECURSIVE JoinDots(_)
\* ".".join(labels)
JoinDots(labels) ==
    IF Len(labels) = 0 THEN <<>>
    ELSE IF Len(labels) = 1 THEN labels[1]
    ELSE labels[1] \o <<".">> \o JoinDots(Tail(labels))

\* the salts of the email variant: b"email", b"email-local", b"email-domain"
SaltEmail       == Utf8(<<"e","m","a","i","l">>)
SaltEmailLocal  == Utf8(<<"e","m","a","i","l","-","l","o","c","a","l">>)
SaltEmailDomain == Utf8(<<"e","m","a","i","l","-","d","o","m","a","i","n">>)

\* mutant: the domain is transformed as one token, dots included
anonymize_email_fpe_whole(value, key, preserve_domain) ==
    IF value.na THEN value
    ELSE LET m == EmailMatch(value.s) IN
         IF ~m.ok THEN fpe_string(Str(value.s), key, SaltEmail).res
         ELSE Str(fpe_string(Str(m.local), key, SaltEmailLocal).res.s \o <<"@">>
                  \o fpe_string(Str(m.domain), key, SaltEmailDomain).res.s)

\* anonymize_email_fpe
anonymize_email_fpe(value, key, preserve_domain) ==
    IF value.na THEN value
    ELSE LET m == EmailMatch(value.s) IN
         IF ~m.ok THEN fpe_string(Str(value.s), key, SaltEmail).res
         ELSE IF preserve_domain
         THEN Str(fpe_string(Str(m.local), key, SaltEmailLocal).res.s \o <<"@">> \o m.domain)
         ELSE LET parts      == SplitDots(m.domain)
                  enc_local  == fpe_string(Str(m.local), key, SaltEmailLocal).res.s
                  enc_labels == [i \in DOMAIN parts |->
                                    fpe_string(Str(parts[i]), key, SaltEmailDomain).res.s]
              IN  Str(enc_local \o <<"@">> \o JoinDots(enc_labels))

-----------------------------------------------------------------------------
(* The pure transformations applied to bounded inputs *)

\* all strings over the characters C of length at most n
Strs(C, n) == UNION {[1..k -> C] : k \in 0..n}

\* the key provider is not used by the transformations
KeyIdle ==
    /\ env = [boto3 |-> FALSE, AWS_REGION |-> "", AWS_DEFAULT_REGION |-> "",
              AWS_KMS_KEY_ID |-> ""]
    /\ dirExists = FALSE /\ secretFile = ABSENT /\ kmsFile = ABSENT
    /\ initSecret = ABSENT /\ log = <<>>

FpeChars == {"7", "a", "Q", "-", " ", EACUTE, SUP2}
Tweaks   == {<<>>, SaltEmail, Utf8(<<"u","i","d">>)}

FoutNone == [op |-> "none", res |-> NA, path |-> "na", raised |-> FALSE]

InitFpe ==
    /\ KeyIdle
    /\ pyffx \in {"absent", "ok", "raises"}
    /\ fin \in [value : {NA} \cup {Str(s) : s \in Strs(FpeChars, MaxLen)},
                key : Keys, tweak : Tweaks]
    /\ fout = FoutNone
    /\ din = NOTRUN /\ dout = NOTRUN

\* fpe_shim_string(value, key, salt=tweak)
RunShim ==
    /\ fout' = [op |-> "shim", res |-> fpe_shim_string(fin.value, fin.key, fin.tweak),
                path |-> "shim", raised |-> FALSE]
    /\ UNCHANGED <<keyVars, pyffx, fin, dfVars>>

\* fpe_string(value, key, tweak=tweak)
RunFpe ==
    /\ LET r == fpe_string(fin.value, fin.key, fin.tweak)
       IN  fout' = [op |-> "fpe", res |-> r.res, path |-> r.path, raised |-> r.raised]
    /\ UNCHANGED <<keyVars, pyffx, fin, dfVars>>

NextFpe == RunShim \/ RunFpe

SpecFpe == InitFpe /\ [][NextFpe]_vars

EmailChars == {"a", "7", "@", "."}

\* addresses with a domain of three non-empty labels, such as a@7.a.7
ThreeLabelEmails ==
    {<<l, "@", x, ".", y, ".", z>> : l \in {"a", "7"}, x \in {"a", "7"},
                                     y \in {"a", "7"}, z \in {"a", "7"}}

InitEmail ==
    /\ KeyIdle
    /\ pyffx \in {"absent", "ok", "raises"}
    /\ fin \in [value : {NA} \cup {Str(s) : s \in Strs(EmailChars, MaxEmailLen)
                                                  \cup ThreeLabelEmails},
                key : Keys, preserve_domain : BOOLEAN]
    /\ fout = FoutNone
    /\ din = NOTRUN /\ dout = NOTRUN

\* anonymize_email_fpe(value, key, preserve_domain)
RunEmailFpe ==
    /\ fout' = [op |-> "email_fpe",
                res |-> anonymize_email_fpe(fin.value, fin.key, fin.preserve_domain),
                path |-> "na", raised |-> FALSE]
    /\ UNCHANGED <<keyVars, pyffx, fin, dfVars>>

NextEmail == RunEmailFpe

SpecEmail == InitEmail /\ [][NextEmail]_vars

-----------------------------------------------------------------------------
(* Keyed-hash tokenizer *)

B32 == <<"A","B","C","D","E","F","G","H","I","J","K","L","M","N","O","P",
         "Q","R","S","T","U","V","W","X","Y","Z","2","3","4","5","6","7">>

\* bit j (0-based, most significant first) of the bytes d, 0 past the end
BitOf(d, j) == IF j >= 8 * Len(d) THEN 0 ELSE (d[(j \div 8) + 1] \div (2 ^ (7 - (j % 8)))) % 2

\* number of characters of base64.b32encode(d) once the "=" padding is stripped
B32Len(d) == (8 * Len(d) + 4) \div 5

\* base64.b32encode(d).decode("ascii").rstrip("="): 5 bits per character
B32Encode(d) ==
    [k \in 1..B32Len(d) |->
        B32[ 16 * BitOf(d, 5 * (k - 1)) + 8 * BitOf(d, 5 * (k - 1) + 1)
           + 4 * BitOf(d, 5 * (k - 1) + 2) + 2 * BitOf(d, 5 * (k - 1) + 3)
           + BitOf(d, 5 * (k - 1) + 4) + 1 ]]

\* tok[:length]
Prefix(s, length) == SubSeq(s, 1, IF length < Len(s) THEN length ELSE Len(s))

\* token_hmac with case="lower": always a string, also for a missing value
token_hmac(value, key, length) ==
    LET mac == _hmac_digest(key, _to_bytes(value))
        tok == Prefix(B32Encode(mac), length)
    IN  Str(LowerStr(tok))

\* anonymize_email_hmac
anonymize_email_hmac(value, key, length, preserve_domain) ==
    IF value.na THEN value
    ELSE LET m == EmailMatch(value.s) IN
         IF ~m.ok THEN token_hmac(value, key, length)
         ELSE IF preserve_domain
         THEN Str(token_hmac(Str(m.local), key, length).s \o <<"@">> \o m.domain)
         ELSE token_hmac(value, key, length + Len(m.domain))

-----------------------------------------------------------------------------
(* Orchestrator: anonymize_df *)

\* defaults of hmac_token_len and hmac_email_len
HmacTokenLen == 22
HmacEmailLen == 16

RECURSIVE FromHexFrom(_, _)
FromHexFrom(hex, i) ==
    IF i > Len(hex) THEN <<>>
    ELSE <<16 * (IndexOf(HEXDIGITS, hex[i]) - 1) + (IndexOf(HEXDIGITS, hex[i + 1]) - 1)>>
         \o FromHexFrom(hex, i + 2)

\* bytes.fromhex(key_hex) of a string of lowercase hex digit pairs
FromHex(hex) == FromHexFrom(hex, 1)

\* "email" in col.lower()
IsEmailColumn(col) == Contains(LowerStr(col), <<"e","m","a","i","l">>)

\* the value one cell is replaced by: the dispatch on mode and column name
\* (the caller has checked that mode is "hmac" or "fpe")
Anonymized(original, col, key, mode, email_preserve_domain) ==
    IF mode = "hmac"
    THEN IF IsEmailColumn(col)
         THEN anonymize_email_hmac(original, key, HmacEmailLen, email_preserve_domain)
         ELSE token_hmac(original, key, HmacTokenLen)
    ELSE IF IsEmailColumn(col)
         THEN anonymize_email_fpe(original, key, email_preserve_domain)
         ELSE fpe_string(original, key, Utf8(col)).res

\* work.at[i, col] = v: the cell of every record labelled i is set (pandas
\* falls back to .loc when the index labels are not unique)
AtSet(work, i, col, v) ==
    [work EXCEPT !.rows = [k \in DOMAIN work.rows |->
        IF work.index[k] = i THEN [work.rows[k] EXCEPT ![col] = v] ELSE work.rows[k]]]

\* row_map[col] = {...}: a dict keyed by column
MapPut(row_map, col, original, anonymized) ==
    {e \in row_map : e.col # col}
        \cup {[col |-> col, original |-> original, anonymized |-> anonymized]}

RECURSIVE DfLoop(_, _, _, _, _, _)
\* the two loops of anonymize_df from record r (position), column c on
DfLoop(a, work, r, c, row_map, mapping_list) ==
    IF r > Len(work.rows)
    THEN [outcome |-> "ok", work |-> work, mapping |-> mapping_list]
    ELSE IF c > Len(a.columns)
    THEN DfLoop(a, work, r + 1, 1, {}, Append(mapping_list, row_map))
    ELSE LET col == a.columns[c] IN
         IF col \notin work.cols
         THEN DfLoop(a, work, r, c + 1, row_map, mapping_list)
         ELSE LET \* row[col]: iterrows yields a copy of the record or a view
                  \* of the frame being written, depending on the dtypes
                  original == IF a.rowIsView THEN work.rows[r][col]
                              ELSE a.df.rows[r][col]
              IN  IF a.mode # "hmac" /\ a.mode # "fpe"
                  THEN [outcome |-> "ValueError", work |-> work, mapping |-> <<>>]
                  ELSE LET anonymized == Anonymized(original, col, FromHex(a.key_hex),
                                                    a.mode, a.email_preserve_domain)
                       IN  DfLoop(a, AtSet(work, work.index[r], col, anonymized), r, c + 1,
                                  MapPut(row_map, col, original, anonymized), mapping_list)

\* anonymize_df: the outcome, the returned frame and mapping, and the
\* caller's frame after the call (the same object as work when in_place)
anonymize_df(a) ==
    LET run == DfLoop(a, a.df, 1, 1, {}, <<>>)
    IN  [outcome  |-> run.outcome,
         work     |-> run.work,
         mapping  |-> run.mapping,
         df_after |-> IF a.in_place THEN run.work ELSE a.df]

ColUid   == <<"u","i","d">>
ColGrp   == <<"g","r","p">>
ColEmail == <<"E","m","a","i","l">>
ColGone  == <<"t","t","l">>

Schema == {ColUid, ColGrp, ColEmail}

V42    == Str(<<"4","2">>)
VMail  == Str(<<"b","@","c",".","d","e">>)
VMixed == Str(<<"g","-","Q">>)

\* the records a record set is made of
RowKinds ==
    { [c \in Schema |-> NA],
      [c \in Schema |-> IF c = ColEmail THEN VMail ELSE V42],
      [c \in Schema |-> IF c = ColUid THEN VMail ELSE IF c = ColGrp THEN NA ELSE V42],
      [c \in Schema |-> IF c = ColUid THEN VMixed ELSE IF c = ColGrp THEN V42 ELSE NA] }

\* index labels of n records: a RangeIndex, or one label repeated
Indexes(n) == {[k \in 1..n |-> k - 1], [k \in 1..n |-> 0]}

Frames ==
    UNION {{[cols |-> Schema, index |-> ix, rows |-> rs] :
                ix \in Indexes(n), rs \in [1..n -> RowKinds]} : n \in 0..MaxRows}

ColumnLists ==
    { <<>>, <<ColGone>>, <<ColUid>>, <<ColEmail>>, <<ColUid, ColGrp>>,
      <<ColEmail, ColGone, ColGrp>>, <<ColUid, ColUid>> }

DoutNone == [outcome |-> "none", work |-> [cols |-> {}, index |-> <<>>, rows |-> <<>>],
             mapping |-> <<>>, df_after |-> [cols |-> {}, index |-> <<>>, rows |-> <<>>]]

InitDf ==
    /\ KeyIdle
    /\ pyffx \in {"absent", "ok"}
    /\ fin = NOTRUN /\ fout = NOTRUN
    /\ din \in [df : Frames, columns : ColumnLists,
                key_hex : {BytesHex(Urandom(1, KeyLen))},
                mode : {"hmac", "fpe", "sha1"},
                in_place : BOOLEAN, email_preserve_domain : BOOLEAN,
                rowIsView : BOOLEAN]
    /\ dout = DoutNone

\* anonymize_df(df, columns, key_hex, mode, in_place, email_preserve_domain)
RunAnonymizeDf ==
    /\ dout.outcome = "none"
    /\ dout' = anonymize_df(din)
    /\ UNCHANGED <<keyVars, fpeVars, din>>

NextDf == RunAnonymizeDf

SpecDf == InitDf /\ [][NextDf]_vars

-----------------------------------------------------------------------------
(* Claims about the key provider, checked under SpecKey *)

DevCalls == {i \in DOMAIN log : log[i].mode = "dev"}
AwsCalls == {i \in DOMAIN log : log[i].mode = "aws"}
IsHex64(s) == Len(s) = 64 /\ \A i \in DOMAIN s : s[i] \in Range(HEXDIGITS)
WrongSize(file) == file.exists /\ Len(file.data) # KeyLen

\* C1: starting with no secret_key.bin, every dev call returns the same
\* 64-character hex string, which is the hex of the 32 bytes in the file, and
\* the file is written exactly once, by the first dev call; no later call
\* (of any mode) writes it.
C1_KeyIdempotent ==
    (~initSecret.exists /\ DevCalls # {}) =>
        LET first == CHOOSE i \in DevCalls : \A j \in DevCalls : i <= j IN
        /\ secretFile.exists /\ Len(secretFile.data) = 32
        /\ \A i \in DevCalls :
              /\ log[i].outcome = "ok"
              /\ IsHex64(log[i].value)
              /\ log[i].value = BytesHex(secretFile.data)
              /\ log[i].value = log[first].value
              /\ (i # first => log[i].writes = <<>>)
        /\ log[first].writes = <<[file |-> "secret_key.bin", content |-> secretFile]>>
        /\ \A i \in DOMAIN log : \A w \in DOMAIN log[i].writes :
              log[i].writes[w].file = "secret_key.bin" => i = first

\* C1 witness: no key file at the start and three dev calls made
C1_Witness ==
    ~initSecret.exists /\ Cardinality(DevCalls) >= 3

\* C2: in remote mode the only file written is kms_data_key.bin, its content
\* is exactly the CiphertextBlob generate_data_key returned, and no file of
\* the data directory holds a plaintext key the remote capability delivered.
C2_PlaintextNeverPersisted ==
    /\ \A i \in AwsCalls :
          /\ Len(log[i].writes) <= 1
          /\ \A w \in DOMAIN log[i].writes :
                /\ log[i].writes[w].file = "kms_data_key.bin"
                /\ Len(log[i].remote) = 1
                /\ log[i].remote[1].op = "generate_data_key"
                /\ log[i].writes[w].content = File(log[i].remote[1].blob)
                /\ log[i].remote[1].blob = KmsWrap(log[i].remote[1].plaintext)
          /\ \A r \in DOMAIN log[i].remote :
                log[i].remote[r].plaintext # <<>> =>
                   /\ kmsFile.data # log[i].remote[r].plaintext
                   /\ secretFile.data # log[i].remote[r].plaintext
                   /\ \A j \in DOMAIN log : \A w \in DOMAIN log[j].writes :
                         log[j].writes[w].content.data # log[i].remote[r].plaintext
    /\ (\E i \in AwsCalls : log[i].writes # <<>>) => kmsFile.exists

\* C2 witness: a remote call generated a key and cached the blob, a later
\* call unwrapped the cached blob, and a call failed the length validation
C2_Witness ==
    \E i, j, k \in AwsCalls :
        /\ log[i].writes # <<>> /\ log[i].outcome = "ok"
        /\ j > i /\ log[j].outcome = "ok" /\ log[j].remote[1].op = "decrypt"
        /\ log[k].outcome = "RuntimeError" /\ log[k].remote # <<>>

\* C4: when secret_key.bin exists with a length other than 32, every dev call
\* fails, returns no secret, writes nothing, and the file keeps its content.
C4_WrongSizeNeverRegenerated ==
    WrongSize(initSecret) =>
        /\ secretFile = initSecret
        /\ \A i \in DevCalls :
              /\ log[i].outcome = "ValueError"
              /\ log[i].value = <<>>
              /\ log[i].writes = <<>>

\* C4 witness: a wrong-sized key file and three failed dev calls
C4_Witness ==
    WrongSize(secretFile) /\ Cardinality(DevCalls) >= 3

-----------------------------------------------------------------------------
(* Claims about the transformations, checked under SpecFpe and SpecEmail *)

\* the character class the shim preserves
CharClass(ch) ==
    IF isdigit(ch) THEN "digit" ELSE IF islower(ch) THEN "lower"
    ELSE IF isupper(ch) THEN "upper" ELSE "other"

\* C7: the shim returns a string of the same length whose character at every
\* position has the class (digit, lowercase, uppercase) of the input's, and
\* leaves every character that is neither a digit nor a letter in place.
C7_ShimShape ==
    (fout.op = "shim" /\ ~fin.value.na) =>
        /\ ~fout.res.na
        /\ Len(fout.res.s) = Len(fin.value.s)
        /\ \A i \in DOMAIN fin.value.s :
              /\ CharClass(fout.res.s[i]) = CharClass(fin.value.s[i])
              /\ (CharClass(fin.value.s[i]) = "other" => fout.res.s[i] = fin.value.s[i])
              /\ (isdigit(fin.value.s[i]) => fout.res.s[i] \in Range(DIGITS))
              /\ (islower(fin.value.s[i]) => fout.res.s[i] \in Range(LOWER))
              /\ (isupper(fin.value.s[i]) => fout.res.s[i] \in Range(UPPER))

\* C7 witness: the shim ran on a value with a lowercase letter, an uppercase
\* letter and a character outside the three classes, and changed it
C7_Witness ==
    /\ fout.op = "shim" /\ ~fin.value.na
    /\ {"lower", "upper", "other"} \subseteq {CharClass(fin.value.s[i]) : i \in DOMAIN fin.value.s}
    /\ fout.res # fin.value

\* the value is of arbitrary composition with fewer than 2 distinct
\* non-whitespace characters
Degenerate(s) ==
    /\ ~only_digits(s) /\ ~only_lower(s) /\ ~only_upper(s) /\ ~alnum(s)
    /\ Cardinality(Observed(s)) < 2

\* C10: when the cipher is absent, or its invocation raises, or the value is
\* degenerate, fpe_string returns fpe_shim_string(value, key, salt=tweak) and
\* raises nothing.
C10_FallbackIsShim ==
    (/\ fout.op = "fpe" /\ ~fin.value.na
     /\ (pyffx = "absent" \/ pyffx = "raises" \/ Degenerate(fin.value.s))) =>
        /\ ~fout.raised
        /\ fout.res = fpe_shim_string(fin.value, fin.key, fin.tweak)

\* C10 witness: the cipher raised on a value the shim changes, under a
\* non-empty tweak
C10_Witness ==
    /\ fout.op = "fpe" /\ ~fin.value.na /\ pyffx = "raises" /\ fin.tweak # <<>>
    /\ fout.res # fin.value
    /\ fout.res # fpe_shim_string(fin.value, fin.key, <<>>)

DotCount(s) == Cardinality({i \in DOMAIN s : s[i] = "."})

\* C8: on a value local@domain the email variant returns
\* <transformed local>@<domain> with the domain verbatim when preserve_domain,
\* and otherwise <transformed local>@<labels joined by "."> with as many
\* labels (dots) as the input domain, each label transformed on its own under
\* the domain salt, the local part under the local salt.
C8_EmailStructure ==
    (fout.op = "email_fpe" /\ ~fin.value.na /\ EmailMatch(fin.value.s).ok) =>
        LET m   == EmailMatch(fin.value.s)
            out == fout.res.s
            ats == {i \in DOMAIN out : out[i] = "@"}
        IN  /\ ~fout.res.na
            /\ Cardinality(ats) = 1
            /\ LET p == CHOOSE i \in ats : TRUE
                   L == SubSeq(out, 1, p - 1)
                   D == SubSeq(out, p + 1, Len(out))
               IN  /\ L = fpe_string(Str(m.local), fin.key, SaltEmailLocal).res.s
                   /\ Len(L) = Len(m.local)
                   /\ fin.preserve_domain => D = m.domain
                   /\ ~fin.preserve_domain =>
                        /\ DotCount(D) = DotCount(m.domain)
                        /\ Len(SplitDots(D)) = Len(SplitDots(m.domain))
                        /\ \A i \in DOMAIN SplitDots(m.domain) :
                              SplitDots(D)[i] =
                                fpe_string(Str(SplitDots(m.domain)[i]), fin.key,
                                           SaltEmailDomain).res.s

\* C8 witness: a domain of three labels transformed label by label
C8_Witness ==
    /\ fout.op = "email_fpe" /\ ~fin.value.na /\ EmailMatch(fin.value.s).ok
    /\ ~fin.preserve_domain
    /\ DotCount(EmailMatch(fin.value.s).domain) = 2
    /\ \A i \in DOMAIN SplitDots(EmailMatch(fin.value.s).domain) :
          SplitDots(EmailMatch(fin.value.s).domain)[i] # <<>>
    /\ fout.res # fin.value

-----------------------------------------------------------------------------
(* Claims about the orchestrator, checked under SpecDf *)

Called == dout.outcome # "none"
Requested == Range(din.columns) \cap din.df.cols

\* C3: in both modes, for every column (email-like or generic), a missing cell
\* is written back missing and recorded with anonymized = original = missing.
C3_MissingIdentity ==
    (Called /\ dout.outcome = "ok") =>
        \A r \in DOMAIN dout.mapping : \A e \in dout.mapping[r] :
            e.original.na => e.anonymized.na

\* C5: with a mode other than "hmac" and "fpe" the call fails with the
\* invalid-argument error whatever the record set and the column list, and
\* no cell of the caller's record set has been modified.
C5_InvalidModeRejected ==
    (Called /\ din.mode \notin {"hmac", "fpe"}) =>
        (dout.outcome = "ValueError" /\ dout.df_after = din.df)

\* C6: in format-preserving mode, on the cipher path as on the shim path, one
\* non-missing value (with a digit or a letter in it) under two different
\* generic column names is anonymized to two different values.
C6_ColumnNameIsTweak ==
    (Called /\ dout.outcome = "ok" /\ din.mode = "fpe") =>
        \A r \in DOMAIN dout.mapping : \A e1, e2 \in dout.mapping[r] :
            (/\ e1.col # e2.col
             /\ ~IsEmailColumn(e1.col) /\ ~IsEmailColumn(e2.col)
             /\ e1.original = e2.original /\ ~e1.original.na
             /\ \E i \in DOMAIN e1.original.s : isalnum(e1.original.s[i]))
            => e1.anonymized # e2.anonymized

\* C9: a successful call returns one mapping entry per input record, in input
\* order; the entry of record r holds exactly the requested columns of the
\* schema, each with original = the cell before the run and anonymized = the
\* cell of the returned record set.
C9_MappingParallel ==
    (Called /\ dout.outcome = "ok") =>
        /\ Len(dout.mapping) = Len(din.df.rows)
        /\ \A r \in DOMAIN dout.mapping :
              /\ {e.col : e \in dout.mapping[r]} = Requested
              /\ Cardinality(dout.mapping[r]) = Cardinality(Requested)
              /\ \A e \in dout.mapping[r] :
                    /\ e.original = din.df.rows[r][e.col]
                    /\ e.anonymized = dout.work.rows[r][e.col]

====
